---- MODULE Spec2Model ----
(***************************************************************************)
(* Model of the Ollama ACP plugin (src/src/lib.rs): the `process` entry    *)
(* point, the four Ollama API operations it dispatches to, and the         *)
(* poll-and-relay loop.                                                    *)
(*                                                                         *)
(* JSON values (serde_json::Value, and magi_pdk::DataType, which the code  *)
(* converts to and from JSON with from_json / to_json) are pairs           *)
(* <<tag, payload>>; a JSON object's payload is a function from its keys   *)
(* to JSON values, so an absent key is a key outside the function's        *)
(* domain.  Rust's Option is a sequence of length 0 (None) or 1 (Some).    *)
(*                                                                         *)
(* The environment (the Ollama server, the host's agent_receive and        *)
(* agent_send) is nondeterministic: every external call is answered by a   *)
(* value chosen with \E, and the call is logged with its answer in `calls`.*)
(***************************************************************************)
EXTENDS Integers, Sequences, FiniteSets, TLC

VARIABLES
    input,      \* the request envelope handed to process()
    config,     \* what magi_pdk::get_config().unwrap_or_default() yields
    queue,      \* the host's pending inbound messages (owned by the host)
    pc,         \* position of the invocation
    messages,   \* poll_messages: the batch agent_receive returned
    idx,        \* poll_messages: index of the message the for loop is at
    content,    \* poll_messages: content of the chat response being relayed
    results,    \* poll_messages: the results Vec
    calls,      \* log of the external calls made, in order, with their answers
    outcome,    \* what process() returned: nothing yet, Ok(envelope) or Err
    faults      \* number of non-nominal environment answers so far

vars == <<input, config, queue, pc, messages, idx, content, results, calls,
          outcome, faults>>

(***************************************************************************)
(* Bounds of the model.                                                    *)
(***************************************************************************)
\* longest host queue built from every kind of inbound message
MaxBatch == 2
\* longest host queue (a backlog of well-formed messages); exceeds the
\* receive limit
MaxBacklog == 11
\* most non-nominal environment answers (faulty or sparse HTTP responses,
\* failed agent_send) injected into one invocation
MaxFaults == 2

(***************************************************************************)
(* JSON values and Option.                                                 *)
(***************************************************************************)
JStr(s) == <<"str", s>>
JNum(n) == <<"num", n>>
JBool(b) == <<"bool", b>>
JNull == <<"null", "">>
JArr(s) == <<"arr", s>>
JObj(f) == <<"obj", f>>
EmptyObj == JObj(<< >>)

None == << >>
Some(x) == <<x>>
IsSome(o) == Len(o) = 1

\* Value::get(key) / DataType::get(key)
Get(j, k) == IF j[1] = "obj" /\ k \in DOMAIN j[2] THEN Some(j[2][k]) ELSE None
\* .and_then(|v| v.as_str())
AsStr(o) == IF IsSome(o) /\ o[1][1] = "str" THEN Some(o[1][2]) ELSE None
\* .and_then(|v| v.as_bool())
AsBool(o) == IF IsSome(o) /\ o[1][1] = "bool" THEN Some(o[1][2]) ELSE None
\* .unwrap_or(d)
UnwrapOr(o, d) == IF IsSome(o) THEN o[1] ELSE d
\* json!(option): None serialises as null
OrNull(o) == UnwrapOr(o, JNull)

(***************************************************************************)
(* Results of a fallible call: FnResult<Json<DataType>>.                   *)
(***************************************************************************)
Ok(v) == [kind |-> "ok", value |-> v]
Err == [kind |-> "err", value |-> JNull]
NoOutcome == [kind |-> "none", value |-> JNull]

(***************************************************************************)
(* The HTTP exchange.  An answer of the server is a transport failure, a   *)
(* body that is not JSON, or a JSON body.                                  *)
(***************************************************************************)
TransportError == [kind |-> "transport_error", data |-> JNull]
NotJson == [kind |-> "not_json", data |-> JNull]
JsonBody(d) == [kind |-> "json", data |-> d]

HttpPost(url, body) ==
    [method |-> "POST", url |-> url,
     headers |-> {<<"Content-Type", "application/json">>}, body |-> Some(body)]
HttpGet(url) ==
    [method |-> "GET", url |-> url,
     headers |-> {<<"Accept", "application/json">>}, body |-> None]

\* a variant of Fetch that swallows an unparsable body as JSON null
FetchLenient(resp) ==
    IF resp.kind = "transport_error" THEN Err ELSE Ok(resp.data)
\* http::request(..)? followed by serde_json::from_slice(..)?: the parsed body,
\* or the propagated error
Fetch(resp) ==
    IF resp.kind = "json" THEN Ok(resp.data) ELSE Err

\* what an operation did: the HTTP exchanges it made and what it returned
Done(http, result) == [http |-> http, result |-> result]
Exchange(req, resp) == <<[req |-> req, resp |-> resp]>>

(***************************************************************************)
(* chat                                                                    *)
(***************************************************************************)
DefaultSystem == "You are a helpful assistant."

Synthesized(system, prompt) ==
    JArr(<<JObj("role" :> JStr("system") @@ "content" :> JStr(system)),
           JObj("role" :> JStr("user") @@ "content" :> JStr(prompt))>>)

\* a variant of ChatMessages in which a prompt wins over messages
ChatMessagesPromptFirst(inp) ==
    IF IsSome(AsStr(Get(inp, "prompt")))
    THEN Some(Synthesized(UnwrapOr(AsStr(Get(inp, "system")), DefaultSystem),
                          AsStr(Get(inp, "prompt"))[1]))
    ELSE Get(inp, "messages")
\* the input resolution of chat: the messages to send, or None when the
\* request is rejected
ChatMessages(inp) ==
    IF IsSome(Get(inp, "messages"))
    THEN Some(Get(inp, "messages")[1])
    ELSE IF IsSome(AsStr(Get(inp, "prompt")))
         THEN Some(Synthesized(UnwrapOr(AsStr(Get(inp, "system")), DefaultSystem),
                               AsStr(Get(inp, "prompt"))[1]))
         ELSE None

UseModel(model, inp) == UnwrapOr(AsStr(Get(inp, "model")), model)

\* data.pointer("/message/content")
MessageContent(data) ==
    IF IsSome(Get(data, "message")) THEN Get(Get(data, "message")[1], "content")
    ELSE None

ChatEnvelope(data, use_model) ==
    JObj("content" :> JStr(UnwrapOr(AsStr(MessageContent(data)), ""))
      @@ "model" :> JStr(UnwrapOr(AsStr(Get(data, "model")), use_model))
      @@ "done" :> JBool(UnwrapOr(AsBool(Get(data, "done")), TRUE))
      @@ "total_duration" :> OrNull(Get(data, "total_duration"))
      @@ "eval_count" :> OrNull(Get(data, "eval_count")))

chat(base_url, model, inp, resp) ==
    IF ~IsSome(ChatMessages(inp))
    THEN Done(<< >>, Ok(JObj("error" :> JStr("prompt or messages required"))))
    ELSE LET use_model == UseModel(model, inp)
             body == JObj("model" :> JStr(use_model)
                       @@ "messages" :> ChatMessages(inp)[1]
                       @@ "stream" :> JBool(FALSE))
             req == HttpPost(base_url \o "/api/chat", body)
             data == Fetch(resp)
         IN  IF data.kind = "err" THEN Done(Exchange(req, resp), Err)
             ELSE Done(Exchange(req, resp),
                       Ok(ChatEnvelope(data.value, use_model)))

(***************************************************************************)
(* generate, embeddings, list_models                                       *)
(***************************************************************************)
\* a variant of IsEmpty for a check that was forgotten
IsEmptyNever(s) == FALSE
\* str::is_empty
IsEmpty(s) == s = ""

generate(base_url, model, inp, resp) ==
    LET prompt == UnwrapOr(AsStr(Get(inp, "prompt")), "")
    IN  IF IsEmpty(prompt)
        THEN Done(<< >>, Ok(JObj("error" :> JStr("prompt is required"))))
        ELSE LET use_model == UseModel(model, inp)
                 body == JObj("model" :> JStr(use_model)
                           @@ "prompt" :> JStr(prompt)
                           @@ "stream" :> JBool(FALSE))
                 req == HttpPost(base_url \o "/api/generate", body)
                 data == Fetch(resp)
             IN  IF data.kind = "err" THEN Done(Exchange(req, resp), Err)
                 ELSE Done(Exchange(req, resp),
                        Ok(JObj(
                          "response" :> JStr(UnwrapOr(AsStr(Get(data.value, "response")), ""))
                          @@ "model" :> JStr(UnwrapOr(AsStr(Get(data.value, "model")), use_model))
                          @@ "done" :> JBool(UnwrapOr(AsBool(Get(data.value, "done")), TRUE)))))

embeddings(base_url, model, inp, resp) ==
    LET text == UnwrapOr(AsStr(Get(inp, "text")), "")
    IN  IF IsEmpty(text)
        THEN Done(<< >>, Ok(JObj("error" :> JStr("text is required"))))
        ELSE LET body == JObj("model" :> JStr(model) @@ "input" :> JStr(text))
                 req == HttpPost(base_url \o "/api/embed", body)
                 data == Fetch(resp)
             IN  IF data.kind = "err" THEN Done(Exchange(req, resp), Err)
                 ELSE Done(Exchange(req, resp),
                        Ok(JObj(
                          "embeddings" :> OrNull(Get(data.value, "embeddings"))
                          @@ "model" :> JStr(UnwrapOr(AsStr(Get(data.value, "model")), model)))))

list_models(base_url, resp) ==
    LET req == HttpGet(base_url \o "/api/tags")
        data == Fetch(resp)
    IN  IF data.kind = "err" THEN Done(Exchange(req, resp), Err)
        ELSE Done(Exchange(req, resp), Ok(data.value))

(***************************************************************************)
(* process: the dispatcher                                                 *)
(***************************************************************************)
\* a variant of DefaultAction
DefaultActionGenerate == "generate"
\* the action of an envelope that names none
DefaultAction == "chat"

ActionOf(inp) == UnwrapOr(AsStr(Get(inp, "action")), DefaultAction)
BaseUrl(cfg) == UnwrapOr(AsStr(Get(cfg, "ollama_url")), "http://localhost:11434")
Model(cfg) == UnwrapOr(AsStr(Get(cfg, "model")), "llama3.2")

\* a variant of UnknownAction that does not echo the action
UnknownActionBare(action) == Ok(JObj("error" :> JStr("unknown action")))
\* the `_` arm of the match
UnknownAction(action) == Ok(JObj("error" :> JStr("unknown action: " \o action)))

\* the arms of the match other than "poll"
Dispatch(inp, cfg, resp) ==
    LET action == ActionOf(inp)
    IN  CASE action = "chat" -> chat(BaseUrl(cfg), Model(cfg), inp, resp)
          [] action = "generate" -> generate(BaseUrl(cfg), Model(cfg), inp, resp)
          [] action = "embeddings" -> embeddings(BaseUrl(cfg), Model(cfg), inp, resp)
          [] action = "list_models" -> list_models(BaseUrl(cfg), resp)
          [] OTHER -> Done(<< >>, UnknownAction(action))

(***************************************************************************)
(* poll_messages                                                           *)
(***************************************************************************)
\* a variant of RecvLimit
RecvLimitOff == 10 + 1
\* the count handed to magi_pdk::agent_receive
RecvLimit == 10

\* agent_receive(max_count): the host hands over at most max_count pending
\* messages, oldest first, and keeps the rest
Received(q, max_count) ==
    SubSeq(q, 1, IF Len(q) < max_count THEN Len(q) ELSE max_count)
Remaining(q, max_count) ==
    SubSeq(q, (IF Len(q) < max_count THEN Len(q) ELSE max_count) + 1, Len(q))

From(msg) == UnwrapOr(AsStr(Get(msg, "from")), "unknown")
Payload(msg) == UnwrapOr(Get(msg, "payload"), JNull)
Prompt(msg) == UnwrapOr(AsStr(Get(Payload(msg), "prompt")), "")

\* a variant of ChatSucceeded that relays whatever the chat call returned
ChatSucceededAlways(r) == TRUE
\* if let Ok(Json(response)) = chat(..)
ChatSucceeded(r) == r.kind = "ok"

\* a variant of AfterChatFailure that leaves the loop
AfterChatFailureBreak(i) == Len(messages) + 1
\* a failed chat call falls through to the next iteration of the for loop
AfterChatFailure(i) == i + 1

\* the end of the loop body: on to the next message
AfterSend(i) == i + 1

RelayResult(from, c) == JObj("from" :> JStr(from) @@ "response" :> JStr(c))
RelayPayload(c) == JObj("response" :> JStr(c))
PollEnvelope(rs) == JObj("processed" :> JNum(Len(rs)) @@ "results" :> JArr(rs))

(***************************************************************************)
(* The external calls, as logged.  idx is the index of the batch message   *)
(* being handled when the call was made (0 outside the loop).              *)
(***************************************************************************)
HttpCall(i, x) == [op |-> "http", idx |-> i, req |-> x.req, resp |-> x.resp]
HttpCalls(i, http) == [k \in 1..Len(http) |-> HttpCall(i, http[k])]
ReceiveCall(max_count, ok, batch) ==
    [op |-> "agent_receive", idx |-> 0, req |-> [max_count |-> max_count],
     resp |-> [kind |-> IF ok THEN "ok" ELSE "error", data |-> batch]]
SendCall(i, to, payload, ok) ==
    [op |-> "agent_send", idx |-> i, req |-> [to |-> to, payload |-> payload],
     resp |-> [kind |-> IF ok THEN "ok" ELSE "error", data |-> << >>]]

(***************************************************************************)
(* The environment: the inputs and the answers the model draws from.       *)
(***************************************************************************)
Field(k, o) == IF IsSome(o) THEN k :> o[1] ELSE << >>
Envelope(a, m, p, s, mo, tx) ==
    JObj(Field("action", a) @@ Field("messages", m) @@ Field("prompt", p)
         @@ Field("system", s) @@ Field("model", mo) @@ Field("text", tx))

UserMessages == JArr(<<JObj("role" :> JStr("user") @@ "content" :> JStr("Yo"))>>)

CallActions ==
    {None, Some(JStr("chat")), Some(JStr("generate")), Some(JStr("embeddings")),
     Some(JStr("list_models")), Some(JStr("summarize")), Some(JStr("")),
     Some(JStr("Chat")), Some(JNum(7))}
CallInputs ==
    { Envelope(a, m, p, s, mo, tx) :
        a \in CallActions,
        m \in {None, Some(UserMessages), Some(JNull)},
        p \in {None, Some(JStr("")), Some(JStr("Hi")), Some(JNum(7))},
        s \in {None, Some(JStr("Be terse.")), Some(JNum(7))},
        mo \in {None, Some(JStr("mistral"))},
        tx \in {None, Some(JStr("")), Some(JStr("abc")), Some(JNum(7))} }
PollInputs == { Envelope(Some(JStr("poll")), None, None, None, None, None) }

Configs ==
    { EmptyObj,
      JObj("ollama_url" :> JStr("http://ollama:1") @@ "model" :> JStr("phi3")),
      JObj("ollama_url" :> JNum(7) @@ "model" :> JStr("phi3")) }

Alice(prompt) == JObj("from" :> JStr("alice") @@ "payload" :> JObj("prompt" :> prompt))
Bob(prompt) == JObj("from" :> JStr("bob") @@ "payload" :> JObj("prompt" :> prompt))
MessageKinds ==
    { Alice(JStr("Q1")), Bob(JStr("Q2")),
      JObj("payload" :> JObj("prompt" :> JStr("Q1"))),
      Alice(JStr("")), Bob(JNum(7)),
      JObj("from" :> JStr("bob")) }

RECURSIVE SeqsUpTo(_, _)
SeqsUpTo(S, n) ==
    IF n = 0 THEN {<< >>}
    ELSE LET shorter == SeqsUpTo(S, n - 1)
         IN  shorter \cup { Append(q, x) : q \in shorter, x \in S }

\* three queued messages, one with an empty prompt
ExampleQueue ==
    <<Alice(JStr("")), Bob(JStr("Q2")), JObj("payload" :> JObj("prompt" :> JStr("Q1")))>>
Queues == SeqsUpTo(MessageKinds, MaxBatch) \cup {ExampleQueue}

\* a host queue at, or beyond, the receive limit
Backlog(n) == [i \in 1..n |-> IF i % 2 = 1 THEN Alice(JStr("Q1")) ELSE Bob(JStr("Q2"))]
Backlogs == { Backlog(n) : n \in (MaxBacklog - 1)..MaxBacklog }

NominalResp ==
    JsonBody(JObj("message" :> JObj("role" :> JStr("assistant") @@ "content" :> JStr("A1"))
               @@ "model" :> JStr("srv") @@ "done" :> JBool(FALSE)
               @@ "total_duration" :> JNum(5) @@ "eval_count" :> JNum(7)
               @@ "response" :> JStr("G1")
               @@ "embeddings" :> JArr(<<JArr(<<JNum(1)>>)>>)))
\* a JSON body without the fields the code looks for
SparseResp == JsonBody(JObj("message" :> JStr("A2") @@ "done" :> JStr("yes")))
Responses == {NominalResp, SparseResp, NotJson, TransportError}

\* the environment may answer non-nominally while the fault budget lasts
MayFault == faults < MaxFaults
HttpCost(http) == Cardinality({k \in 1..Len(http) : http[k].resp # NominalResp})

(***************************************************************************)
(* The state machine: one invocation of process().                         *)
(***************************************************************************)
Init ==
    /\ \/ input \in CallInputs /\ queue = <<Alice(JStr("Q1"))>> /\ config \in Configs
       \/ input \in PollInputs /\ queue \in Queues /\ config \in Configs
       \/ input \in PollInputs /\ queue \in Backlogs /\ config = EmptyObj
    /\ pc = "ready"
    /\ messages = << >>
    /\ idx = 0
    /\ content = ""
    /\ results = << >>
    /\ calls = << >>
    /\ outcome = NoOutcome
    /\ faults = 0

\* process() with an action other than "poll": the whole call
ProcessCall ==
    /\ pc = "ready"
    /\ ActionOf(input) # "poll"
    /\ \E resp \in Responses :
         LET d == Dispatch(input, config, resp)
         IN  /\ calls' = HttpCalls(0, d.http)
             /\ outcome' = d.result
             /\ faults' = faults + HttpCost(d.http)
    /\ pc' = "done"
    /\ UNCHANGED <<input, config, queue, messages, idx, content, results>>

\* process() with action "poll", up to the head of the for loop
PollReceive ==
    /\ pc = "ready"
    /\ ActionOf(input) = "poll"
    /\ \E ok \in BOOLEAN :
         LET batch == IF ok THEN Received(queue, RecvLimit) ELSE << >>
         IN  /\ messages' = batch
             /\ queue' = IF ok THEN Remaining(queue, RecvLimit) ELSE queue
             /\ calls' = <<ReceiveCall(RecvLimit, ok, batch)>>
    /\ idx' = 1
    /\ pc' = "poll_loop"
    /\ UNCHANGED <<input, config, content, results, outcome, faults>>

\* an iteration over a message whose prompt is empty
PollSkip ==
    /\ pc = "poll_loop"
    /\ idx <= Len(messages)
    /\ IsEmpty(Prompt(messages[idx]))
    /\ idx' = idx + 1
    /\ UNCHANGED <<input, config, queue, pc, messages, content, results, calls,
                   outcome, faults>>

\* an iteration over a message with a prompt: the chat call
PollChat ==
    /\ pc = "poll_loop"
    /\ idx <= Len(messages)
    /\ ~IsEmpty(Prompt(messages[idx]))
    /\ \E resp \in Responses :
         LET d == chat(BaseUrl(config), Model(config),
                       JObj("prompt" :> JStr(Prompt(messages[idx]))), resp)
         IN  /\ resp = NominalResp \/ MayFault
             /\ calls' = calls \o HttpCalls(idx, d.http)
             /\ faults' = faults + HttpCost(d.http)
             /\ IF ChatSucceeded(d.result)
                THEN /\ content' = UnwrapOr(AsStr(Get(d.result.value, "content")), "")
                     /\ pc' = "poll_send"
                     /\ idx' = idx
                ELSE /\ content' = content
                     /\ pc' = pc
                     /\ idx' = AfterChatFailure(idx)
    /\ UNCHANGED <<input, config, queue, messages, results, outcome>>

\* the rest of the iteration after a successful chat call: relay and record
PollSend ==
    /\ pc = "poll_send"
    /\ \E ok \in BOOLEAN :
         /\ ok \/ MayFault
         /\ calls' = Append(calls, SendCall(idx, From(messages[idx]),
                                            RelayPayload(content), ok))
         /\ faults' = faults + (IF ok THEN 0 ELSE 1)
    /\ results' = Append(results, RelayResult(From(messages[idx]), content))
    /\ content' = ""
    /\ idx' = AfterSend(idx)
    /\ pc' = "poll_loop"
    /\ UNCHANGED <<input, config, queue, messages, outcome>>

\* the loop is over: return the summary
PollReturn ==
    /\ pc = "poll_loop"
    /\ idx > Len(messages)
    /\ outcome' = Ok(PollEnvelope(results))
    /\ pc' = "done"
    /\ UNCHANGED <<input, config, queue, messages, idx, content, results, calls,
                   faults>>

Next ==
    \/ ProcessCall
    \/ PollReceive
    \/ PollSkip
    \/ PollChat
    \/ PollSend
    \/ PollReturn

Spec == Init /\ [][Next]_vars

(***************************************************************************)
(* Vocabulary of the properties, read off the inputs and the call log      *)
(* rather than off the operators above.                                    *)
(***************************************************************************)
Actions == {"chat", "generate", "embeddings", "list_models", "poll"}

\* the envelope's field k is a string
HasStr(j, k) == k \in DOMAIN j[2] /\ j[2][k][1] = "str"
NonEmptyStr(j, k) == HasStr(j, k) /\ j[2][k][2] # ""

\* the invocation is a chat: action "chat", or no action at all
IsChat == "action" \notin DOMAIN input[2] \/ input[2]["action"] = JStr("chat")
IsAction(a) == "action" \in DOMAIN input[2] /\ input[2]["action"] = JStr(a)
IsPoll == IsAction("poll")

HttpAt(i) == {k \in DOMAIN calls : calls[k].op = "http" /\ calls[k].idx = i}
SendAt(i) == {k \in DOMAIN calls : calls[k].op = "agent_send" /\ calls[k].idx = i}
HttpAll == {k \in DOMAIN calls : calls[k].op = "http"}
SendAll == {k \in DOMAIN calls : calls[k].op = "agent_send"}
ReceiveAll == {k \in DOMAIN calls : calls[k].op = "agent_receive"}
Faulty(k) == calls[k].resp.kind \in {"transport_error", "not_json"}

\* the inbound message carries a non-empty prompt
HasPrompt(msg) ==
    /\ "payload" \in DOMAIN msg[2]
    /\ msg[2]["payload"][1] = "obj"
    /\ NonEmptyStr(msg[2]["payload"], "prompt")
\* the chat call for message i was made and the server answered with JSON
ChatOkAt(i) == \E k \in HttpAt(i) : calls[k].resp.kind = "json"
ChatFailedAt(i) == \E k \in HttpAt(i) : Faulty(k)
Processed(i) == HasPrompt(messages[i]) /\ ChatOkAt(i)

\* message.content of the answer to the chat call for message i
AnswerAt(i) ==
    LET d == calls[CHOOSE k \in HttpAt(i) : TRUE].resp.data
    IN  IF /\ d[1] = "obj"
           /\ "message" \in DOMAIN d[2]
           /\ d[2]["message"][1] = "obj"
           /\ HasStr(d[2]["message"], "content")
        THEN d[2]["message"][2]["content"][2]
        ELSE ""
SenderOf(msg) == IF HasStr(msg, "from") THEN msg[2]["from"][2] ELSE "unknown"

RECURSIVE ExpectedResults(_)
ExpectedResults(n) ==
    IF n = 0 THEN << >>
    ELSE IF Processed(n)
         THEN Append(ExpectedResults(n - 1),
                     JObj("from" :> JStr(SenderOf(messages[n]))
                          @@ "response" :> JStr(AnswerAt(n))))
         ELSE ExpectedResults(n - 1)

(***************************************************************************)
(* C1: in a poll, agent_send is called at most once per inbound message,   *)
(* only for a message with a non-empty prompt whose chat call succeeded,   *)
(* and never for a skipped message or one whose chat call failed.          *)
(***************************************************************************)
C1_RelayOnlyProcessed ==
    \A k \in SendAll :
        /\ calls[k].idx \in 1..Len(messages)
        \* the one relay for its message
        /\ \A k2 \in SendAll : calls[k2].idx = calls[k].idx => k2 = k
        \* and the message was processed, not skipped and not failed
        /\ Processed(calls[k].idx)
        /\ HasPrompt(messages[calls[k].idx])
        /\ ~ChatFailedAt(calls[k].idx)

C1_Witness ==
    /\ pc = "done"
    /\ Len(messages) = 3
    /\ Cardinality(SendAll) = 1
    /\ \E i \in 1..3 : ~HasPrompt(messages[i]) /\ SendAt(i) = {}
    /\ \E i \in 1..3 : ChatFailedAt(i) /\ SendAt(i) = {}

(***************************************************************************)
(* C2: poll returns {processed, results} where results is exactly the      *)
(* subsequence, in delivery order, of the messages with a non-empty prompt *)
(* whose chat call succeeded, each as {from, response: content}, and       *)
(* processed is its length, whether or not the agent_send succeeded.       *)
(***************************************************************************)
C2_PollResults ==
    (pc = "done" /\ IsPoll) =>
        outcome = Ok(JObj("processed" :> JNum(Len(ExpectedResults(Len(messages))))
                          @@ "results" :> JArr(ExpectedResults(Len(messages)))))

C2_Witness ==
    /\ pc = "done"
    /\ Len(messages) = 3
    /\ \E i \in 1..3 : ~HasPrompt(messages[i])
    /\ \E i \in 1..3 : ChatFailedAt(i)
    /\ \E k \in SendAll : calls[k].resp.kind = "error"
    /\ outcome.value[2]["processed"] = JNum(1)
    /\ Len(outcome.value[2]["results"][2]) = 1

\* the poll has a next step: the receive, a skip, a relay or the return is
\* enabled, or the loop is at a message with a prompt, whose chat call is made
CanStep ==
    \/ ENABLED (PollReceive \/ PollSkip \/ PollSend \/ PollReturn)
    \/ pc = "poll_loop" /\ idx \in 1..Len(messages) /\ HasPrompt(messages[idx])

(***************************************************************************)
(* C3: poll never propagates a failure and never aborts the batch: a       *)
(* failed agent_receive gives an empty batch, a failed chat call for one   *)
(* message leaves every later message examined and processed, and the      *)
(* invocation ends with a {processed, results} envelope.                   *)
(***************************************************************************)
C3_PollNeverFails ==
    IsPoll =>
        /\ outcome.kind # "err"
        /\ pc # "done" => CanStep
        /\ \A k \in ReceiveAll : calls[k].resp.kind = "error" => messages = << >>
        /\ pc = "done" =>
             /\ outcome.kind = "ok"
             /\ outcome.value[1] = "obj"
             /\ DOMAIN outcome.value[2] = {"processed", "results"}
             /\ \A j \in 1..Len(messages) :
                  HasPrompt(messages[j]) => HttpAt(j) # {}
             /\ \A j \in 1..Len(messages) :
                  ChatOkAt(j) => SendAt(j) # {}

C3_Witness ==
    /\ pc = "done"
    /\ outcome.kind = "ok"
    /\ \E i, j \in 1..Len(messages) :
         /\ i < j
         /\ ChatFailedAt(i)
         /\ ChatOkAt(j)
         /\ SendAt(j) # {}

(***************************************************************************)
(* C4: the poll loop is strictly sequential in delivery order: it requests *)
(* at most 10 messages and issues at most 10 chat HTTP calls; for messages *)
(* i < j the chat call and the relay for i come before the chat call for   *)
(* j; and the loop makes one pass over the batch.                          *)
(***************************************************************************)
C4_Sequential ==
    IsPoll =>
        /\ \A k \in ReceiveAll : k = 1 /\ calls[k].req.max_count <= 10
        /\ Len(messages) <= 10
        /\ Cardinality(HttpAll) <= 10
        \* the calls are made in the order of the messages they are for, and
        \* two calls for one message are its one chat call and then its relay
        /\ \A p, q \in DOMAIN calls : p < q =>
             /\ calls[p].idx <= calls[q].idx
             /\ calls[p].idx = calls[q].idx =>
                  calls[p].op = "http" /\ calls[q].op = "agent_send"
        /\ \A k \in HttpAll \cup SendAll : calls[k].idx \in 1..Len(messages)
        /\ idx <= Len(messages) + 1
        /\ pc = "done" => idx = Len(messages) + 1

C4_Witness ==
    /\ pc = "done"
    /\ Len(queue) > 0
    /\ Cardinality(HttpAll) = 10
    /\ Cardinality(SendAll) = 10
    /\ \E i \in 1..9 : ChatOkAt(i) /\ ChatOkAt(i + 1)

\* the result of a chat request that is turned down
RejectedChat ==
    Ok(JObj("error" :> JStr("prompt or messages required")))

(***************************************************************************)
(* C5: chat with neither a `messages` field nor a non-empty `prompt`       *)
(* string (prompt absent, not a string, or empty) returns exactly          *)
(* {error: "prompt or messages required"} as a normal result and issues no *)
(* HTTP request.                                                           *)
(***************************************************************************)
C5_ChatRequiresInput ==
    (/\ pc = "done"
     /\ IsChat
     /\ "messages" \notin DOMAIN input[2]
     /\ ~NonEmptyStr(input, "prompt"))
        => outcome = RejectedChat /\ calls = << >>

(***************************************************************************)
(* C6: for chat, generate, embeddings and list_models with valid input, a  *)
(* transport failure or a response body that is not JSON fails the whole   *)
(* invocation: process returns an error, no envelope, and the call is not  *)
(* retried (at most one HTTP request per invocation).                      *)
(***************************************************************************)
C6_FaultPropagates ==
    (pc = "done" /\ (IsChat \/ \E a \in Actions \ {"poll"} : IsAction(a))) =>
        /\ Len(calls) <= 1
        /\ \A k \in DOMAIN calls : calls[k].op = "http"
        /\ (\E k \in DOMAIN calls : Faulty(k)) => outcome = Err

C6_Witness ==
    /\ pc = "done"
    /\ IsAction("embeddings")
    /\ Len(calls) = 1
    /\ calls[1].resp.kind = "not_json"
    /\ outcome = Err

\* the envelope, with action "chat" added
WithChat == JObj(("action" :> JStr("chat")) @@ input[2])

(***************************************************************************)
(* C7: an envelope with no `action` field is processed exactly as the same *)
(* envelope with action "chat": for the same configuration and the same    *)
(* answer of the server, the same HTTP request and the same outcome.       *)
(***************************************************************************)
C7_DefaultIsChat ==
    (pc = "done" /\ "action" \notin DOMAIN input[2]) =>
        \A r \in Responses :
            (calls = << >> \/ calls[1].resp = r) =>
                /\ calls = HttpCalls(0, Dispatch(WithChat, config, r).http)
                /\ outcome = Dispatch(WithChat, config, r).result

C7_Witness ==
    /\ pc = "done"
    /\ "action" \notin DOMAIN input[2]
    /\ Len(calls) = 1
    /\ calls[1].req.url = "http://ollama:1/api/chat"
    /\ outcome.kind = "ok"
    /\ outcome.value[2]["content"] = JStr("A1")

(***************************************************************************)
(* C8: for an `action` string other than the five action kinds, process    *)
(* returns exactly {error: "unknown action: <action>"} with the action     *)
(* echoed unchanged, as a normal result, and makes no HTTP request, no     *)
(* agent_receive and no agent_send.                                        *)
(***************************************************************************)
C8_UnknownAction ==
    (HasStr(input, "action") /\ input[2]["action"][2] \notin Actions) =>
        /\ calls = << >>
        /\ pc = "done" =>
             outcome = Ok(JObj("error" :>
                 JStr("unknown action: " \o input[2]["action"][2])))

C8_Witness ==
    /\ pc = "done"
    /\ IsAction("Chat")
    /\ calls = << >>
    /\ outcome = Ok(JObj("error" :> JStr("unknown action: Chat")))

(***************************************************************************)
(* C9: generate with `prompt` absent, non-string or empty returns exactly  *)
(* {error: "prompt is required"}, embeddings with `text` absent,           *)
(* non-string or empty returns exactly {error: "text is required"}; both   *)
(* as a normal result, with no HTTP request.                               *)
(***************************************************************************)
C9_RequiredFields ==
    pc = "done" =>
        /\ (IsAction("generate") /\ ~NonEmptyStr(input, "prompt")) =>
             /\ outcome = Ok(JObj("error" :> JStr("prompt is required")))
             /\ calls = << >>
        /\ (IsAction("embeddings") /\ ~NonEmptyStr(input, "text")) =>
             /\ outcome = Ok(JObj("error" :> JStr("text is required")))
             /\ calls = << >>

C9_Witness ==
    /\ pc = "done"
    /\ IsAction("embeddings")
    /\ HasStr(input, "text")
    /\ input[2]["text"][2] = ""
    /\ outcome = Ok(JObj("error" :> JStr("text is required")))
    /\ calls = << >>

\* the one call made is a POST to <base_url>/api/chat, and its messages
PostedMessages == calls[1].req.body[1][2]["messages"]
PostedToChat ==
    /\ Len(calls) = 1
    /\ calls[1].op = "http"
    /\ calls[1].req.method = "POST"
    /\ calls[1].req.url \in {"http://localhost:11434/api/chat", "http://ollama:1/api/chat"}

(***************************************************************************)
(* C10: the `messages` value POSTed to /api/chat is the request's          *)
(* `messages` field whenever that field is present (prompt and system are  *)
(* then ignored); otherwise, when `prompt` is a string, it is              *)
(* [{role: "system", content: s}, {role: "user", content: prompt}] with s  *)
(* the request's `system` string if given and the default system prompt if *)
(* not.                                                                    *)
(***************************************************************************)
C10_ChatInputResolution ==
    (pc = "done" /\ IsChat) =>
        /\ "messages" \in DOMAIN input[2] =>
             PostedToChat /\ PostedMessages = input[2]["messages"]
        /\ ("messages" \notin DOMAIN input[2] /\ HasStr(input, "prompt")) =>
             /\ PostedToChat
             /\ PostedMessages =
                  JArr(<<JObj("role" :> JStr("system") @@ "content" :>
                            JStr(IF HasStr(input, "system")
                                 THEN input[2]["system"][2]
                                 ELSE "You are a helpful assistant.")),
                         JObj("role" :> JStr("user") @@ "content" :>
                            JStr(input[2]["prompt"][2]))>>)

C10_Witness ==
    /\ pc = "done"
    /\ IsAction("chat")
    /\ {"messages", "prompt", "system"} \subseteq DOMAIN input[2]
    /\ input[2]["prompt"] = JStr("Hi")
    /\ PostedToChat
    /\ PostedMessages = UserMessages

====
